---- MODULE Spec2Model ----
(***************************************************************************)
(* Model of the knowledge-graph front end: the App shell (App.jsx: the     *)
(* two HTTP interactions and their React state), the graph view            *)
(* (KnowledgeGraph.jsx: cached node positions, drag, re-render) and the    *)
(* data adapter (getNodeColor, link labels).                               *)
(***************************************************************************)
EXTENDS Integers, Sequences, FiniteSets, TLC

VARIABLES
    \* ---- App.jsx: React state of App (lines 8-13) ----
    mounted,      \* has the mount effect run
    graphData,    \* useState(null): the displayed payload
    message,      \* useState('')
    loading,      \* useState(false)
    timeFilter,   \* useState('now')
    messageTime,  \* useState('now')
    error,        \* useState(null)
    \* ---- the network: every request issued so far, in issue order ----
    reqs,
    lastResp,     \* the response delivered last
    triggers,     \* how often each trigger happened (mount, filter change, submit)
    escaped,      \* an exception left fetchGraphData or handleSubmit uncaught
    \* ---- KnowledgeGraph.jsx: the adapter seen as a function ----
    payload,      \* the data prop handed to KnowledgeGraph
    rendered,     \* the graphData object of its last render
    \* ---- KnowledgeGraph.jsx: the graph view ----
    data,         \* data.nodes of the mounted view
    nodePositions,\* useState({}): id -> {x, y}
    simNodes,     \* the node objects the force engine holds and mutates
    released      \* the last drag release, and whether a tick followed it

appVars == <<mounted, graphData, message, loading, timeFilter, messageTime,
             error, reqs, lastResp, triggers, escaped>>

adapterVars == <<payload, rendered>>

viewVars == <<data, nodePositions, simNodes, released>>

vars == <<appVars, adapterVars, viewVars>>

----------------------------------------------------------------------------
(* Bounds *)

MaxReqs == 3

\* longest node list and edge list of a payload given to the adapter
MaxNodes == 2
MaxEdges == 2

\* node coordinates range over 0..MaxCoord in both axes
MaxCoord == 1

\* a perturbation is applied while every velocity component is below MaxSpeed
\* in size (in units of the force 0.3)
MaxSpeed == 1

----------------------------------------------------------------------------
(* App.jsx: values *)

Null == "<null>"

\* the option values of both selects
timeFilters == {"now", "1h", "1d", "1w", "1m"}

\* the options the user picks among in the model
FilterChoices == {"now", "1h", "1d"}
MessageTimeChoices == {"now", "1h"}

\* readings of the clock (new Date()), in seconds since the epoch; the second
\* is one hour after the first
ClockReadings == {1700000000, 1700003600}

\* what the user can type into the textarea
Messages == {"", "hello"}

\* payload of no fetch: useState(null)
NoData == [filter |-> "<none>", req |-> 0]

\* getTimestamp: the offset subtracted from the current time, in seconds
\* (the code's milliseconds divided by 1000, to stay within 32-bit integers)
getTimestampOffset(timeOffset) ==
    CASE timeOffset = "now" -> 0
      [] timeOffset = "1h"  -> 60 * 60
      [] timeOffset = "1d"  -> 24 * 60 * 60
      [] timeOffset = "1w"  -> 7 * 24 * 60 * 60
      [] timeOffset = "1m"  -> 30 * 24 * 60 * 60
      [] OTHER              -> 0

\* getTimestamp: the current time moved back by the offset; toISOString writes
\* that instant out in UTC, so the body carries the instant itself
getTimestamp_OfTimeFilter(timeOffset, now) == now - getTimestampOffset(timeFilter)

getTimestamp(timeOffset, now) == now - getTimestampOffset(timeOffset)

----------------------------------------------------------------------------
(* Responses the server (or the transport) can give *)

StatusCodes == {500}

\* detail texts a failure body can carry; the empty text is one of them
Details == {"", "Invalid message"}

\* body of a non-success POST response, as response.json() sees it: text that
\* is not JSON ("syntaxError"), the JSON value null ("null"), or any other
\* JSON value ("object"), with or without a detail field
ErrorBodies ==
    {[parse |-> "syntaxError", hasDetail |-> FALSE, detail |-> ""],
     [parse |-> "null",        hasDetail |-> FALSE, detail |-> ""],
     [parse |-> "object",      hasDetail |-> FALSE, detail |-> ""]}
    \cup {[parse |-> "object", hasDetail |-> TRUE, detail |-> d] : d \in Details}

NoBody == [parse |-> "object", hasDetail |-> FALSE, detail |-> ""]

NoResponse == [kind |-> "none", status |-> 0, body |-> NoBody]

GetResponses ==
    {[kind |-> k, status |-> 200, body |-> NoBody] : k \in {"ok", "network", "malformed"}}
    \cup {[kind |-> "http", status |-> s, body |-> NoBody] : s \in StatusCodes}

PostResponses ==
    {[kind |-> k, status |-> 200, body |-> NoBody] : k \in {"ok", "network"}}
    \cup {[kind |-> "http", status |-> 500, body |-> b] : b \in ErrorBodies}

\* messages of the errors the runtime throws
NetworkErrorMessage == "Failed to fetch"
SyntaxErrorMessage  == "Unexpected token < in JSON at position 0"
TypeErrorMessage    == "Cannot read properties of null (reading 'detail')"
GenericPostMessage  == "Failed to process message"

HttpErrorMessage(status) ==
    CASE status = 500 -> "HTTP error! status: 500"
      [] OTHER        -> "HTTP error! status: ?"

----------------------------------------------------------------------------
(* App.jsx: the requests in flight *)

Request(kind, filter, text, timestamp, cause) ==
    [kind |-> kind, filter |-> filter, text |-> text, timestamp |-> timestamp,
     cause |-> cause, status |-> "pending", sentAt |-> 0, msgTime |-> ""]

\* the POST of handleSubmit, with the clock reading and the message-time option
\* it was built from
PostRequest(now) ==
    [Request("POST", timeFilter, message, getTimestamp(messageTime, now), "submit")
       EXCEPT !.sentAt = now, !.msgTime = messageTime]

Pending(kind) == {i \in 1..Len(reqs) : reqs[i].kind = kind /\ reqs[i].status = "pending"}

\* the request's entry once its response has arrived
Settle(i, outcome) ==
    [reqs EXCEPT ![i].status = outcome]

\* mutant of SubmitDisabled: the button is disabled by loading alone
SubmitDisabled_LoadingOnly == loading

\* <button type="submit" disabled={loading || !message}>
SubmitDisabled == loading \/ message = ""

----------------------------------------------------------------------------
(* App.jsx: fetchGraphData (lines 41-69) *)

\* the try block after the await: what it throws, or the data it parsed
FetchTry(resp, i) ==
    CASE resp.kind = "network" ->
           [thrown |-> TRUE, message |-> NetworkErrorMessage, data |-> NoData]
      [] resp.kind = "http" ->
           [thrown |-> TRUE, message |-> HttpErrorMessage(resp.status), data |-> NoData]
      [] resp.kind = "malformed" ->
           [thrown |-> TRUE, message |-> SyntaxErrorMessage, data |-> NoData]
      [] OTHER ->
           [thrown |-> FALSE, message |-> Null,
            data |-> [filter |-> reqs[i].filter, req |-> i]]

\* mutant of FetchSettle: the catch also clears the displayed graph
FetchSettle_ClearsGraph(resp, i) ==
    LET t == FetchTry(resp, i) IN
    IF t.thrown
    THEN [graphData |-> NoData, error |-> t.message, escaped |-> FALSE]
    ELSE [graphData |-> t.data, error |-> error, escaped |-> FALSE]

\* mutant of FetchSettle: JSON.parse runs outside the try block
FetchSettle_ParseOutsideTry(resp, i) ==
    LET t == FetchTry(resp, i) IN
    IF t.thrown
    THEN IF resp.kind = "malformed"
         THEN [graphData |-> graphData, error |-> error, escaped |-> TRUE]
         ELSE [graphData |-> graphData, error |-> t.message, escaped |-> FALSE]
    ELSE [graphData |-> t.data, error |-> error, escaped |-> FALSE]

\* the state fetchGraphData leaves: setGraphData(data), or the catch's setError
FetchSettle(resp, i) ==
    LET t == FetchTry(resp, i) IN
    IF t.thrown
    THEN [graphData |-> graphData, error |-> t.message, escaped |-> FALSE]
    ELSE [graphData |-> t.data, error |-> error, escaped |-> FALSE]

\* mutant of IssueGet: the request is attempted a second time
IssueGet_Twice(log, filter, cause) ==
    Append(Append(log, Request("GET", filter, "", 0, cause)),
           Request("GET", filter, "", 0, cause))

\* the first half of fetchGraphData: setError(null) and the GET it issues
IssueGet(log, filter, cause) == Append(log, Request("GET", filter, "", 0, cause))

----------------------------------------------------------------------------
(* App.jsx: handleSubmit (lines 71-106) *)

\* mutant of DetailOrGeneric: the detail is never used
DetailOrGeneric_AlwaysGeneric(body) == GenericPostMessage

\* mutant of DetailOrGeneric: no fallback to the generic message
DetailOrGeneric_NoFallback(body) == body.detail

\* errorData.detail || 'Failed to process message'
DetailOrGeneric(body) ==
    IF body.hasDetail /\ body.detail # "" THEN body.detail ELSE GenericPostMessage

\* the try block after the POST's await: what it throws, if anything
PostTry(resp) ==
    CASE resp.kind = "network" -> [thrown |-> TRUE, message |-> NetworkErrorMessage]
      [] resp.kind = "http" ->
           [thrown |-> TRUE,
            message |-> CASE resp.body.parse = "syntaxError" -> SyntaxErrorMessage
                          [] resp.body.parse = "null"        -> TypeErrorMessage
                          [] OTHER -> DetailOrGeneric(resp.body)]
      [] OTHER -> [thrown |-> FALSE, message |-> Null]

\* the catch of handleSubmit without its finally
SubmitCatch_NoFinally(t) == [error |-> t.message, loading |-> loading, escaped |-> FALSE]

\* the catch and finally of handleSubmit after a throw
SubmitCatch(t) == [error |-> t.message, loading |-> FALSE, escaped |-> FALSE]

----------------------------------------------------------------------------
(* App.jsx: the operations *)

AppInit ==
    /\ mounted = FALSE
    /\ graphData = NoData
    /\ message = ""
    /\ loading = FALSE
    /\ timeFilter = "now"
    /\ messageTime = "now"
    /\ error = Null
    /\ reqs = <<>>
    /\ lastResp = NoResponse
    /\ triggers = [mount |-> 0, filter |-> 0, submit |-> 0]
    /\ escaped = FALSE

\* useEffect(..., [timeFilter]) on the first render
Mount ==
    /\ ~mounted
    /\ mounted' = TRUE
    /\ error' = Null
    /\ reqs' = IssueGet(reqs, timeFilter, "mount")
    /\ triggers' = [triggers EXCEPT !.mount = @ + 1]
    /\ UNCHANGED <<graphData, message, loading, timeFilter, messageTime, lastResp, escaped>>
    /\ UNCHANGED <<adapterVars, viewVars>>

\* onChange of the view-window select, and the effect its re-render runs
SelectTimeFilter(v) ==
    /\ mounted
    /\ v # timeFilter
    /\ Len(reqs) < MaxReqs
    /\ timeFilter' = v
    /\ error' = Null
    /\ reqs' = IssueGet(reqs, v, "filter")
    /\ triggers' = [triggers EXCEPT !.filter = @ + 1]
    /\ UNCHANGED <<mounted, graphData, message, loading, messageTime, lastResp, escaped>>
    /\ UNCHANGED <<adapterVars, viewVars>>

\* onChange of the message-time select
SelectMessageTime(v) ==
    /\ mounted
    /\ v # messageTime
    /\ messageTime' = v
    /\ UNCHANGED <<mounted, graphData, message, loading, timeFilter, error, reqs,
                   lastResp, triggers, escaped>>
    /\ UNCHANGED <<adapterVars, viewVars>>

\* onChange of the textarea
EditMessage(m) ==
    /\ mounted
    /\ m # message
    /\ message' = m
    /\ UNCHANGED <<mounted, graphData, loading, timeFilter, messageTime, error, reqs,
                   lastResp, triggers, escaped>>
    /\ UNCHANGED <<adapterVars, viewVars>>

\* handleSubmit up to its first await: the POST carries the text, the timestamp
\* and (in its closure) the time filter of the render the form was submitted in
HandleSubmit(now) ==
    /\ mounted
    /\ ~SubmitDisabled
    /\ Len(reqs) < MaxReqs
    /\ loading' = TRUE
    /\ error' = Null
    /\ reqs' = Append(reqs, PostRequest(now))
    /\ triggers' = [triggers EXCEPT !.submit = @ + 1]
    /\ UNCHANGED <<mounted, graphData, message, timeFilter, messageTime, lastResp, escaped>>
    /\ UNCHANGED <<adapterVars, viewVars>>

\* the POST succeeded: handleSubmit goes on to await fetchGraphData()
PostOk(i) ==
    /\ i \in Pending("POST")
    /\ error' = Null
    /\ reqs' = IssueGet(Settle(i, "ok"), reqs[i].filter, "refetch")
    /\ lastResp' = [kind |-> "ok", status |-> 200, body |-> NoBody]
    /\ UNCHANGED <<mounted, graphData, message, loading, timeFilter, messageTime,
                   triggers, escaped>>
    /\ UNCHANGED <<adapterVars, viewVars>>

\* the POST failed, with setMessage('') moved into the finally
PostFail_ClearsMessage(i, resp) ==
    /\ i \in Pending("POST")
    /\ resp \in PostResponses /\ resp.kind # "ok"
    /\ LET c == SubmitCatch(PostTry(resp)) IN
         /\ error' = c.error
         /\ loading' = c.loading
         /\ escaped' = (escaped \/ c.escaped)
    /\ reqs' = Settle(i, "failed")
    /\ lastResp' = resp
    /\ message' = ""
    /\ UNCHANGED <<mounted, graphData, timeFilter, messageTime, triggers>>
    /\ UNCHANGED <<adapterVars, viewVars>>

\* the POST failed: the catch sets the error, the finally clears loading
PostFail(i, resp) ==
    /\ i \in Pending("POST")
    /\ resp \in PostResponses /\ resp.kind # "ok"
    /\ LET c == SubmitCatch(PostTry(resp)) IN
         /\ error' = c.error
         /\ loading' = c.loading
         /\ escaped' = (escaped \/ c.escaped)
    /\ reqs' = Settle(i, "failed")
    /\ lastResp' = resp
    /\ UNCHANGED <<mounted, graphData, message, timeFilter, messageTime, triggers>>
    /\ UNCHANGED <<adapterVars, viewVars>>

\* a GET's response arrives: the rest of fetchGraphData, and for the GET that
\* handleSubmit awaited, the rest of handleSubmit (setMessage(''), finally)
GetResolve(i, resp) ==
    /\ i \in Pending("GET")
    /\ resp \in GetResponses
    /\ LET s == FetchSettle(resp, i) IN
         /\ graphData' = s.graphData
         /\ error' = s.error
         /\ escaped' = (escaped \/ s.escaped)
    /\ reqs' = Settle(i, IF resp.kind = "ok" THEN "ok" ELSE "failed")
    /\ lastResp' = resp
    /\ IF reqs[i].cause = "refetch"
       THEN message' = "" /\ loading' = FALSE
       ELSE UNCHANGED <<message, loading>>
    /\ UNCHANGED <<mounted, timeFilter, messageTime, triggers>>
    /\ UNCHANGED <<adapterVars, viewVars>>

AppNext ==
    \/ Mount
    \/ \E v \in FilterChoices : SelectTimeFilter(v)
    \/ \E v \in MessageTimeChoices : SelectMessageTime(v)
    \/ \E m \in Messages : EditMessage(m)
    \/ \E now \in ClockReadings : HandleSubmit(now)
    \/ \E i \in 1..Len(reqs) : PostOk(i)
    \/ \E i \in 1..Len(reqs) : \E resp \in PostResponses : PostFail(i, resp)
    \/ \E i \in 1..Len(reqs) : \E resp \in GetResponses : GetResolve(i, resp)

----------------------------------------------------------------------------
(* KnowledgeGraph.jsx: strings are sequences of one-character strings *)

UpperCase == <<"A", "B", "C", "D", "E", "F", "G", "H", "I", "J", "K", "L", "M", "N", "O", "P", "Q", "R", "S", "T", "U", "V", "W", "X", "Y", "Z">>
LowerCase == <<"a", "b", "c", "d", "e", "f", "g", "h", "i", "j", "k", "l", "m", "n", "o", "p", "q", "r", "s", "t", "u", "v", "w", "x", "y", "z">>

\* String.prototype.toLowerCase
toLowerCase(str) ==
    [k \in 1..Len(str) |->
        IF \E u \in 1..Len(UpperCase) : UpperCase[u] = str[k]
        THEN LowerCase[CHOOSE u \in 1..Len(UpperCase) : UpperCase[u] = str[k]]
        ELSE str[k]]

\* a type that is missing from the node (undefined or null)
MissingType == <<"<undefined>">>

\* the own properties of the colors object literal
colors ==
    {<<<<"p", "e", "r", "s", "o", "n">>, "#ff6b6b">>,
     <<<<"t", "o", "p", "i", "c">>, "#4ecdc4">>,
     <<<<"i", "n", "t", "e", "r", "e", "s", "t">>, "#45b7d1">>,
     <<<<"a", "c", "t", "i", "v", "i", "t", "y">>, "#96ceb4">>,
     <<<<"s", "k", "i", "l", "l">>, "#ffd93d">>,
     <<<<"t", "o", "o", "l">>, "#6c5ce7">>,
     <<<<"c", "o", "n", "c", "e", "p", "t">>, "#a8e6cf">>,
     <<<<"o", "r", "g", "a", "n", "i", "z", "a", "t", "i", "o", "n">>, "#ff8b94">>,
     <<<<"d", "e", "f", "a", "u", "l", "t">>, "#666666">>}

\* property names every object literal inherits from Object.prototype; their
\* values are functions (or the prototype itself), all truthy
ObjectPrototypeKeys ==
    {<<"c", "o", "n", "s", "t", "r", "u", "c", "t", "o", "r">>,
     <<"t", "o", "S", "t", "r", "i", "n", "g">>,
     <<"v", "a", "l", "u", "e", "O", "f">>,
     <<"h", "a", "s", "O", "w", "n", "P", "r", "o", "p", "e", "r", "t", "y">>,
     <<"_", "_", "p", "r", "o", "t", "o", "_", "_">>}

InheritedMember == "<member of Object.prototype>"
JsUndefined == "<undefined>"

\* colors[key]: own property, else inherited property, else undefined
colorsLookup(key) ==
    IF \E c \in colors : c[1] = key
    THEN (CHOOSE c \in colors : c[1] = key)[2]
    ELSE IF key \in ObjectPrototypeKeys THEN InheritedMember ELSE JsUndefined

\* getNodeColor: colors[type?.toLowerCase()] || colors.default
getNodeColor(type) ==
    LET key   == IF type = MissingType THEN <<"u", "n", "d", "e", "f", "i", "n", "e", "d">> ELSE toLowerCase(type)
        found == colorsLookup(key)
    IN  IF found # JsUndefined THEN found ELSE colorsLookup(<<"d", "e", "f", "a", "u", "l", "t">>)

----------------------------------------------------------------------------
(* KnowledgeGraph.jsx: the link label *)

Digits == <<"0", "1", "2", "3", "4", "5", "6", "7", "8", "9">>

\* the decimal digits of a natural number
RECURSIVE NatToString(_)
NatToString(n) ==
    IF n < 10 THEN <<Digits[n + 1]>>
    ELSE NatToString(n \div 10) \o <<Digits[(n % 10) + 1]>>

\* mutant of toFixed2: the third decimal is cut off instead of rounded
toFixed2_Truncates(milli) ==
    LET n == milli \div 10
        d == NatToString(n)
        padded == IF Len(d) < 3 THEN SubSeq(<<"0", "0", "0">>, 1, 3 - Len(d)) \o d ELSE d
    IN  SubSeq(padded, 1, Len(padded) - 2) \o <<".">>
          \o SubSeq(padded, Len(padded) - 1, Len(padded))

\* Number.prototype.toFixed(2) of the weight milli/1000 >= 0: n is the integer
\* with n/100 closest to the weight, the larger one on a tie; its digits are
\* padded to three and the point put before the last two
toFixed2(milli) ==
    LET n == (milli + 5) \div 10
        d == NatToString(n)
        padded == IF Len(d) < 3 THEN SubSeq(<<"0", "0", "0">>, 1, 3 - Len(d)) \o d ELSE d
    IN  SubSeq(padded, 1, Len(padded) - 2) \o <<".">>
          \o SubSeq(padded, Len(padded) - 1, Len(padded))

\* `${edge.type} (${edge.weight.toFixed(2)})`
linkLabel(edge) == edge.type \o <<" ", "(">> \o toFixed2(edge.weight) \o <<")">>

----------------------------------------------------------------------------
(* KnowledgeGraph.jsx: graphData, the object handed to ForceGraph2D *)

\* an optional number: <<>> is undefined, <<v>> is the number v
Undef == <<>>
Some(v) == <<v>>

NodeSize == 8

\* mutant of adaptNode: a cached position is not applied
adaptNode_IgnoresCache(node, positions) ==
    [id |-> node.id, type |-> node.type, color |-> getNodeColor(node.type),
     size |-> NodeSize, x |-> Undef, y |-> Undef, fx |-> Undef, fy |-> Undef]

\* one element of graphData.nodes
adaptNode(node, positions) ==
    [id |-> node.id, type |-> node.type, color |-> getNodeColor(node.type),
     size |-> NodeSize,
     x  |-> IF node.id \in DOMAIN positions THEN Some(positions[node.id].x) ELSE Undef,
     y  |-> IF node.id \in DOMAIN positions THEN Some(positions[node.id].y) ELSE Undef,
     fx |-> IF node.id \in DOMAIN positions THEN Some(positions[node.id].x) ELSE Undef,
     fy |-> IF node.id \in DOMAIN positions THEN Some(positions[node.id].y) ELSE Undef]

\* one element of graphData.links
adaptLink(edge) ==
    [source |-> edge.source, target |-> edge.target, label |-> linkLabel(edge),
     weight |-> edge.weight, type |-> edge.type]

adaptGraph(d, positions) ==
    [nodes |-> [k \in 1..Len(d.nodes) |-> adaptNode(d.nodes[k], positions)],
     links |-> [k \in 1..Len(d.edges) |-> adaptLink(d.edges[k])]]

----------------------------------------------------------------------------
(* The payloads the adapter is applied to *)

NodeIds == <<"a", "b", "c", "d">>

PersonType == <<"p", "e", "r", "s", "o", "n">>
TopicType == <<"t", "o", "p", "i", "c">>
RelatedType == <<"r", "e", "l", "a", "t", "e", "d">>

\* node types: the eight of the enumeration in several spellings, and others
TypeInputs ==
    {<<"p", "e", "r", "s", "o", "n">>, <<"P", "e", "r", "s", "o", "n">>, <<"P", "E", "R", "S", "O", "N">>, <<"t", "o", "p", "i", "c">>, <<"T", "o", "P", "i", "C">>,
     <<"i", "n", "t", "e", "r", "e", "s", "t">>, <<"A", "c", "t", "i", "v", "i", "t", "y">>, <<"S", "K", "I", "L", "L">>, <<"t", "o", "o", "l">>, <<"C", "o", "n", "c", "e", "p", "t">>,
     <<"o", "r", "g", "a", "n", "i", "z", "a", "t", "i", "o", "n">>, <<"O", "R", "G", "A", "N", "I", "Z", "A", "T", "I", "O", "N">>,
     <<"d", "e", "f", "a", "u", "l", "t">>, <<"a", "n", "i", "m", "a", "l">>, <<"c", "o", "n", "s", "t", "r", "u", "c", "t", "o", "r">>, <<>>, MissingType}

EdgeTypes == {<<"r", "e", "l", "a", "t", "e", "d">>, <<"k", "n", "o", "w", "s">>}

\* weights in thousandths; 125 (0.125) lies exactly between two hundredths
Weights == {0, 4, 125, 126, 500, 994, 996, 1500}

RECURSIVE SeqsUpTo(_, _)
SeqsUpTo(S, n) ==
    IF n = 0 THEN {<<>>}
    ELSE LET shorter == SeqsUpTo(S, n - 1)
         IN  shorter \cup {Append(q, e) : q \in shorter, e \in S}

\* node lists: the k-th node has the k-th id
NodeLists ==
    {[k \in 1..Len(ts) |-> [id |-> NodeIds[k], type |-> ts[k]]] :
        ts \in SeqsUpTo(TypeInputs, MaxNodes)}

Edges ==
    {[source |-> e[1], target |-> e[2], type |-> t, weight |-> w] :
        e \in {<<"a", "b">>, <<"b", "a">>}, t \in EdgeTypes, w \in Weights}

ExampleNodes == <<[id |-> "a", type |-> PersonType], [id |-> "b", type |-> TopicType]>>
ExampleEdge == [source |-> "a", target |-> "b", type |-> RelatedType, weight |-> 500]

Payloads ==
    {[nodes |-> ns, edges |-> <<>>] : ns \in NodeLists}
    \cup {[nodes |-> ExampleNodes, edges |-> es] : es \in SeqsUpTo(Edges, MaxEdges)}

\* useState({})
NoPositions == [n \in {} |-> [x |-> 0, y |-> 0]]

NotRendered == [nodes |-> <<>>, links |-> <<>>, done |-> FALSE]

AdapterIdle ==
    /\ payload = [nodes |-> <<>>, edges |-> <<>>]
    /\ rendered = NotRendered

AdapterInit ==
    /\ payload \in Payloads
    /\ rendered = NotRendered

\* a render of KnowledgeGraph with no cached position
RenderGraph ==
    /\ ~rendered.done
    /\ rendered' = [nodes |-> adaptGraph(payload, NoPositions).nodes,
                    links |-> adaptGraph(payload, NoPositions).links, done |-> TRUE]
    /\ UNCHANGED payload
    /\ UNCHANGED <<appVars, viewVars>>

AdapterNext == RenderGraph

----------------------------------------------------------------------------
(* KnowledgeGraph.jsx: the mounted view and the force engine it feeds *)

Coords == 0..MaxCoord

NoRelease == [id |-> "<none>", x |-> 0, y |-> 0, ticked |-> FALSE]

Ids(nodes) == {nodes[k].id : k \in 1..Len(nodes)}

\* the node lists a fetch can deliver to the view
DataChoices ==
    {<<>>, <<ExampleNodes[1]>>, <<ExampleNodes[2]>>, ExampleNodes}

\* the engine takes the node objects of a render: a node that comes with a
\* position keeps it, any other is placed by the engine; every node starts at
\* rest (vx = vy = 0)
PlacedNode(node) ==
    {[id |-> node.id, type |-> node.type, color |-> node.color, size |-> node.size,
      x |-> Some(px), y |-> Some(py), fx |-> node.fx, fy |-> node.fy,
      vx |-> 0, vy |-> 0] :
        px \in (IF node.x = Undef THEN Coords ELSE {node.x[1]}),
        py \in (IF node.y = Undef THEN Coords ELSE {node.y[1]})}

\* the sequences that take their k-th element from the k-th set
RECURSIVE Pick(_)
Pick(sets) ==
    IF sets = <<>> THEN {<<>>}
    ELSE {<<h>> \o t : h \in Head(sets), t \in Pick(Tail(sets))}

EngineLoad(nodes) == Pick([k \in 1..Len(nodes) |-> PlacedNode(nodes[k])])

\* a render of the view: graphData is rebuilt and handed to the engine
RenderNodes(nodes, positions) ==
    EngineLoad(adaptGraph([nodes |-> nodes, edges |-> <<>>], positions).nodes)

\* one coordinate after an engine tick: a pinned coordinate is taken over,
\* a free one moves by at most one step; the velocity of a pinned coordinate
\* is reset and that of a free one has decayed below one unit
Shift(v) == {w \in Coords : w - v \in {-1, 0, 1}}

TickedNode(node) ==
    {[node EXCEPT !.x = Some(nx), !.y = Some(ny), !.vx = 0, !.vy = 0] :
        nx \in (IF node.fx # Undef THEN {node.fx[1]} ELSE Shift(node.x[1])),
        ny \in (IF node.fy # Undef THEN {node.fy[1]} ELSE Shift(node.y[1]))}

\* !v for a coordinate: undefined and 0 are the falsy ones
JsFalsy(v) == v = Undef \/ v = Some(0)

\* (cos(angle), sin(angle)) * force, in units of the force 0.3, for the angles
\* 0, pi/2, pi and 3pi/2
Impulses == {<<1, 0>>, <<0, 1>>, <<-1, 0>>, <<0, -1>>}

\* addRandomForce for every angle Math.random() can give
addRandomForce(node) ==
    IF JsFalsy(node.fx) /\ JsFalsy(node.fy)
    THEN {[node EXCEPT !.vx = @ + i[1], !.vy = @ + i[2]] : i \in Impulses}
    ELSE {node}

\* the effect on [data.nodes] when it copies every saved position
prunePositions_KeepsAll(nodes, positions) == positions

\* the effect on [data.nodes]: positions of ids that are still present
prunePositions(nodes, positions) ==
    [n \in (DOMAIN positions) \cap Ids(nodes) |-> positions[n]]

\* setNodePositions(prev => ({...prev, [node.id]: {x: node.x, y: node.y}}))
savePosition(positions, id, px, py) ==
    [n \in (DOMAIN positions) \cup {id} |->
        IF n = id THEN [x |-> px, y |-> py] ELSE positions[n]]

ViewIdle ==
    /\ data = <<>>
    /\ nodePositions = NoPositions
    /\ simNodes = <<>>
    /\ released = NoRelease

\* the view right after it mounted with the first fetched payload
ViewInit ==
    /\ data = ExampleNodes
    /\ nodePositions = NoPositions
    /\ simNodes \in RenderNodes(data, nodePositions)
    /\ released = NoRelease

\* the user drags node k to (px, py) and releases it: onNodeDragEnd pins the
\* node object, saves the position, and the view renders again
NodeDragEnd(k, px, py) ==
    /\ k \in 1..Len(simNodes)
    /\ nodePositions' = savePosition(nodePositions, simNodes[k].id, px, py)
    /\ simNodes' \in RenderNodes(data, nodePositions')
    /\ released' = [id |-> simNodes[k].id, x |-> px, y |-> py, ticked |-> FALSE]
    /\ UNCHANGED data
    /\ UNCHANGED <<appVars, adapterVars>>

\* one tick of the force simulation
Tick ==
    /\ simNodes # <<>>
    /\ simNodes' \in Pick([k \in 1..Len(simNodes) |-> TickedNode(simNodes[k])])
    /\ released' = IF released = NoRelease THEN released
                   ELSE [released EXCEPT !.ticked = TRUE]
    /\ UNCHANGED <<data, nodePositions>>
    /\ UNCHANGED <<appVars, adapterVars>>

\* the 2000 ms interval fires: nodes.forEach(addRandomForce), then the reheat
Perturb ==
    /\ simNodes # <<>>
    /\ \A k \in 1..Len(simNodes) :
          /\ simNodes[k].vx \in (1 - MaxSpeed)..(MaxSpeed - 1)
          /\ simNodes[k].vy \in (1 - MaxSpeed)..(MaxSpeed - 1)
    /\ simNodes' \in Pick([k \in 1..Len(simNodes) |-> addRandomForce(simNodes[k])])
    /\ UNCHANGED <<data, nodePositions, released>>
    /\ UNCHANGED <<appVars, adapterVars>>

\* a fetch delivers new data: render, the effect prunes the cache, render
DataRefresh(nodes) ==
    /\ data' = nodes
    /\ nodePositions' = prunePositions(nodes, nodePositions)
    /\ simNodes' \in RenderNodes(nodes, nodePositions')
    /\ released' = IF released.id \in Ids(nodes) THEN released ELSE NoRelease
    /\ UNCHANGED <<appVars, adapterVars>>

\* the parent renders again with the same data (any state change of App)
Rerender ==
    /\ simNodes' \in RenderNodes(data, nodePositions)
    /\ UNCHANGED <<data, nodePositions, released>>
    /\ UNCHANGED <<appVars, adapterVars>>

ViewNext ==
    \/ \E k \in 1..Len(simNodes) : \E px \in Coords : \E py \in Coords :
          NodeDragEnd(k, px, py)
    \/ Tick
    \/ Perturb
    \/ \E nodes \in DataChoices : DataRefresh(nodes)
    \/ Rerender
----------------------------------------------------------------------------
(* Specifications: one per component *)

\* the App shell
Init == AppInit /\ AdapterIdle /\ ViewIdle

Next == AppNext

Spec == Init /\ [][Next]_vars

\* the adapter, applied to every payload of Payloads
\* the submission path with every message-time option selectable: the responses
\* are narrowed to one success and one failure of each request
SubmitFilterChoices == {"now", "1d"}
SubmitPostFailures  == {r \in PostResponses : r.kind = "network"}
SubmitGetResponses  == {r \in GetResponses : r.kind \in {"ok", "network"}}

InitSubmit == AppInit /\ AdapterIdle /\ ViewIdle

NextSubmit ==
    \/ Mount
    \/ \E v \in SubmitFilterChoices : SelectTimeFilter(v)
    \/ \E v \in timeFilters : SelectMessageTime(v)
    \/ \E m \in Messages : EditMessage(m)
    \/ \E now \in ClockReadings : HandleSubmit(now)
    \/ \E i \in 1..Len(reqs) : PostOk(i)
    \/ \E i \in 1..Len(reqs) : \E resp \in SubmitPostFailures : PostFail(i, resp)
    \/ \E i \in 1..Len(reqs) : \E resp \in SubmitGetResponses : GetResolve(i, resp)

SpecSubmit == InitSubmit /\ [][NextSubmit]_vars

InitAdapter == AppInit /\ AdapterInit /\ ViewIdle

NextAdapter == AdapterNext

SpecAdapter == InitAdapter /\ [][NextAdapter]_vars

\* the mounted graph view
InitView == AppInit /\ AdapterIdle /\ ViewInit

NextView == ViewNext

SpecView == InitView /\ [][NextView]_vars

----------------------------------------------------------------------------
(* Properties of the App shell *)

Gets(cause) == {i \in 1..Len(reqs) : reqs[i].kind = "GET" /\ reqs[i].cause = cause}
Posts == {i \in 1..Len(reqs) : reqs[i].kind = "POST"}

\* request i is a GET the change of the time filter to f issued
FilterGet(i, f) ==
    /\ reqs[i].kind = "GET" /\ reqs[i].cause = "filter" /\ reqs[i].filter = f

\* this step delivers a failure to the pending request i of the given kind
Fails(i, kind) ==
    /\ i \in 1..Len(reqs)
    /\ reqs[i].kind = kind
    /\ reqs[i].status = "pending"
    /\ reqs'[i].status = "failed"

\* the detail texts that are not empty
DetailTexts == {d \in Details : d # ""}

\* C1: the time filter is changed to 1h and then to 1d, the two GETs being
\* requests i and i + 1; whichever of the two responses arrives last, the step
\* that applies it (both having succeeded) leaves the response of the 1d
\* request as the displayed graphData.
C1_LastFilterWins ==
    [][\A i \in 1..(Len(reqs) - 1) :
         ( /\ FilterGet(i, "1h") /\ FilterGet(i + 1, "1d")
           /\ "pending" \in {reqs[i].status, reqs[i + 1].status}
           /\ reqs'[i].status = "ok" /\ reqs'[i + 1].status = "ok" )
         => graphData' = [filter |-> "1d", req |-> i + 1]]_vars

\* C2 (as stated): a step in which handleSubmit's POST fails leaves graphData
\* unchanged and issues no request, and sets error to the body's detail field
\* whenever the body carries one.
C2_FailedPostShowsDetailField ==
    [][\A i \in 1..Len(reqs) :
         Fails(i, "POST") =>
            /\ graphData' = graphData
            /\ Len(reqs') = Len(reqs)
            /\ (lastResp'.kind = "http" /\ lastResp'.body.parse = "object"
                  /\ lastResp'.body.hasDetail)
               => error' = lastResp'.body.detail]_vars

\* C2 (amended): a step in which handleSubmit's POST fails leaves graphData
\* unchanged and issues no request, and sets error to the body's detail field
\* whenever the body carries a non-empty one; an empty detail gives the
\* generic message.
C2_FailedPostShowsDetailText ==
    [][\A i \in 1..Len(reqs) :
         Fails(i, "POST") =>
            /\ graphData' = graphData
            /\ Len(reqs') = Len(reqs)
            /\ (lastResp'.kind = "http" /\ lastResp'.body.parse = "object"
                  /\ lastResp'.body.hasDetail)
               => error' = IF lastResp'.body.detail # ""
                           THEN lastResp'.body.detail
                           ELSE GenericPostMessage]_vars

\* C2 witness: with a fetched graph on display, a POST has failed with a
\* detail text and that text is the error shown.
C2_Witness ==
    /\ graphData # NoData
    /\ \E i \in Posts : reqs[i].status = "failed"
    /\ lastResp.kind = "http" /\ lastResp.body.hasDetail
    /\ lastResp.body.detail \in DetailTexts
    /\ error = lastResp.body.detail

\* C3: the submit control is disabled whenever the message text is empty, and
\* no POST /process-message was ever issued with an empty text.
C3_NoEmptySubmit ==
    /\ (message = "" => SubmitDisabled)
    /\ \A i \in Posts : reqs[i].text # ""

\* C3 witness: a POST was issued and the message text is empty again.
C3_Witness ==
    /\ \E i \in Posts : reqs[i].text = "hello"
    /\ message = ""
    /\ ~loading

\* C7: a step in which a GET /graph fails (transport, status or unparsable
\* body) leaves graphData unchanged and sets error to the failure's message;
\* fetchGraphData changes nothing else.
C7_FailedGetKeepsGraph ==
    [][\A i \in 1..Len(reqs) :
         Fails(i, "GET") =>
            /\ graphData' = graphData
            /\ error' = CASE lastResp'.kind = "network"   -> NetworkErrorMessage
                          [] lastResp'.kind = "malformed" -> SyntaxErrorMessage
                          [] OTHER -> HttpErrorMessage(lastResp'.status)
            /\ timeFilter' = timeFilter /\ messageTime' = messageTime
            /\ Len(reqs') = Len(reqs)
            /\ (reqs[i].cause # "refetch" => message' = message /\ loading' = loading)]_vars

\* C7 witness: a graph was fetched, a later GET failed, and the graph of the
\* earlier request is still displayed next to the error.
C7_Witness ==
    /\ \E i \in 1..Len(reqs) : \E j \in 1..Len(reqs) :
          /\ i < j
          /\ reqs[j].kind = "GET" /\ reqs[j].status = "failed"
          /\ graphData = [filter |-> reqs[i].filter, req |-> i]
    /\ lastResp.kind \in {"network", "http", "malformed"}
    /\ error # Null

\* every message the handlers can set the error to
ErrorStrings ==
    {NetworkErrorMessage, SyntaxErrorMessage, TypeErrorMessage, GenericPostMessage}
    \cup {HttpErrorMessage(c) : c \in StatusCodes} \cup DetailTexts

\* C8: on the read path and on the write path every failure (transport,
\* non-success status, malformed body) ends in the handler that issued the
\* request with error set to a string, and no exception escapes.
C8_FailuresCaught ==
    [][/\ ~escaped'
       /\ \A i \in 1..Len(reqs) :
            (Fails(i, "GET") \/ Fails(i, "POST")) => error' \in ErrorStrings]_vars

\* C8 witness: a GET and a POST have both failed, the POST with a body that
\* is not JSON, and the parse failure's message is the error shown.
C8_Witness ==
    /\ \E i \in Gets("mount") \cup Gets("filter") : reqs[i].status = "failed"
    /\ \E i \in Posts : reqs[i].status = "failed"
    /\ lastResp.kind = "http" /\ lastResp.body.parse = "syntaxError"
    /\ error = SyntaxErrorMessage
    /\ ~escaped

\* C9: one request per trigger and none for a failure: one GET for the mount,
\* one per change of the time filter, one after each successful POST, one POST
\* per submission, and nothing else.
C9_OneAttemptPerTrigger ==
    /\ triggers.mount = (IF mounted THEN 1 ELSE 0)
    /\ Cardinality(Gets("mount")) = triggers.mount
    /\ Cardinality(Gets("filter")) = triggers.filter
    /\ Cardinality(Gets("refetch")) = Cardinality({i \in Posts : reqs[i].status = "ok"})
    /\ Cardinality(Posts) = triggers.submit
    /\ Len(reqs) = triggers.mount + triggers.filter + triggers.submit
                     + Cardinality({i \in Posts : reqs[i].status = "ok"})

\* C9 witness: the mount GET failed, then a submission's POST succeeded and
\* its follow-up GET was issued: three requests in all.
C9_Witness ==
    /\ Len(reqs) = 3
    /\ reqs[1].cause = "mount" /\ reqs[1].status = "failed"
    /\ reqs[2].kind = "POST" /\ reqs[2].status = "ok"
    /\ reqs[3].cause = "refetch"

\* C10 (as stated): when the POST fails with a non-success status and the body
\* has no detail field, error is the generic message; error is a detail text
\* only when the body has a detail field.
C10_NoDetailGivesGeneric ==
    [][\A i \in 1..Len(reqs) :
         (Fails(i, "POST") /\ lastResp'.kind = "http") =>
            /\ ~(lastResp'.body.parse = "object" /\ lastResp'.body.hasDetail)
                 => error' = GenericPostMessage
            /\ error' \in DetailTexts
                 => (lastResp'.body.parse = "object" /\ lastResp'.body.hasDetail)]_vars

\* C10 (amended): when the POST fails with a non-success status and the body
\* parses as JSON to a value with no detail field, error is the generic
\* message; error is a detail text only when the body has a detail field; a
\* body that is not JSON, or is the JSON value null, gives the message of the
\* exception that reading it threw.
C10_ObjectWithoutDetailGivesGeneric ==
    [][\A i \in 1..Len(reqs) :
         (Fails(i, "POST") /\ lastResp'.kind = "http") =>
            /\ (lastResp'.body.parse = "object" /\ ~lastResp'.body.hasDetail)
                 => error' = GenericPostMessage
            /\ error' \in DetailTexts
                 => (lastResp'.body.parse = "object" /\ lastResp'.body.hasDetail)
            /\ lastResp'.body.parse = "syntaxError" => error' = SyntaxErrorMessage
            /\ lastResp'.body.parse = "null" => error' = TypeErrorMessage]_vars

\* C10 witness: a POST has failed with a JSON body without a detail field and
\* the generic message is the error shown.
C10_Witness ==
    /\ \E i \in Posts : reqs[i].status = "failed"
    /\ lastResp.kind = "http" /\ lastResp.body.parse = "object"
    /\ ~lastResp.body.hasDetail
    /\ error = GenericPostMessage

\* the requests a handleSubmit still waits for: its POST, or the GET it awaits
\* after the POST succeeded
Awaited ==
    {i \in Posts : reqs[i].status = "pending"}
    \cup {i \in Gets("refetch") : reqs[i].status = "pending"}

\* C12: loading is true exactly while a handleSubmit is between its start and
\* its end (its POST, or after a successful POST its follow-up GET, is still
\* awaited); at most one submission is in flight at a time, so no second POST
\* is issued while loading is true; and once the responses have arrived,
\* whatever they were, loading is false.
C12_LoadingWhileSubmitting ==
    /\ loading <=> Awaited # {}
    /\ Cardinality(Awaited) <= 1
    /\ loading => SubmitDisabled

\* C12 witness: a submission whose POST succeeded and whose follow-up GET
\* failed has ended, and loading is false.
C12_Witness ==
    /\ ~loading
    /\ \E i \in Posts : reqs[i].status = "ok"
    /\ \E j \in Gets("refetch") : reqs[j].status = "failed"

\* C15: when a POST succeeds, the follow-up GET that handleSubmit issues asks
\* for the time filter selected at that moment, also when the user changed
\* the filter while the POST was in flight.
C15_RefetchUsesSelectedFilter ==
    [][\A i \in 1..Len(reqs) :
          PostOk(i) =>
              /\ reqs'[Len(reqs')].cause = "refetch"
              /\ reqs'[Len(reqs')].filter = timeFilter]_vars

\* this step delivers the response, good or bad, to the pending GET i
Settles(i) ==
    /\ i \in 1..Len(reqs)
    /\ reqs[i].kind = "GET"
    /\ reqs[i].status = "pending"
    /\ reqs'[i].status # "pending"

\* C16: a step of the program (anything but the user typing) changes the
\* message text only by emptying it at the end of a submission whose POST
\* succeeded, and the end of such a submission empties it whether its
\* follow-up GET succeeded or failed; a failed POST leaves the text as it
\* is, and so does the response to a GET issued by mount or filter change.
C16_MessageResetOnlyAfterPostOk ==
    [][/\ (reqs' # reqs /\ message' # message) =>
             /\ message' = ""
             /\ \E i \in Gets("refetch") :
                    /\ Settles(i)
                    /\ \E j \in Posts : j < i /\ reqs[j].status = "ok"
       /\ \A i \in Gets("refetch") : Settles(i) => message' = ""
       /\ \A i \in Posts : Fails(i, "POST") => message' = message
       /\ \A i \in Gets("mount") \cup Gets("filter") : Settles(i) => message' = message
      ]_vars

\* C16 witness: the POST of the text hello succeeded, its follow-up GET
\* failed, and the text is empty with the failure of the GET shown.
C16_Witness ==
    /\ message = ""
    /\ error # Null
    /\ \E j \in Posts : reqs[j].status = "ok" /\ reqs[j].text = "hello"
    /\ \E i \in Gets("refetch") : reqs[i].status = "failed"
    /\ Awaited = {}

\* the offsets of the message-time options, in seconds
ExpectedOffset(option) ==
    CASE option = "1h" -> 3600
      [] option = "1d" -> 86400
      [] option = "1w" -> 604800
      [] option = "1m" -> 2592000
      [] OTHER         -> 0

\* values the option list does not hold
OtherTimeOffsets == {"", "2h", "1y"}

\* C11: the timestamp of every POST is the clock reading of its submission
\* minus the offset of the message-time option selected then (now 0, 1h one
\* hour, 1d 24 hours, 1w 7 days, 1m 30 days, any other value 0), whatever the
\* view time filter was.
C11_TimestampFromMessageTime ==
    /\ \A i \in Posts :
          reqs[i].timestamp = reqs[i].sentAt - ExpectedOffset(reqs[i].msgTime)
    /\ \A now \in ClockReadings : \A v \in timeFilters \cup OtherTimeOffsets :
          getTimestamp(v, now) = now - ExpectedOffset(v)

\* C11 witness: a POST submitted with message time 1m under the view filter 1d
\* carries the clock reading minus 30 days.
C11_Witness ==
    \E i \in Posts :
        /\ reqs[i].msgTime = "1m" /\ reqs[i].filter = "1d"
        /\ reqs[i].sentAt \in ClockReadings
        /\ reqs[i].timestamp = reqs[i].sentAt - 2592000

----------------------------------------------------------------------------
(* Properties of the adapter *)

\* two strings that differ at most in the case of their letters
SameIgnoringCase(a, b) ==
    /\ Len(a) = Len(b)
    /\ \A k \in 1..Len(a) :
          \/ a[k] = b[k]
          \/ \E u \in 1..Len(UpperCase) : {a[k], b[k]} = {UpperCase[u], LowerCase[u]}

DefaultColor == "#666666"

\* the eight types of the enumeration, each with its colour
EnumeratedColors == {c \in colors : c[1] # <<"d", "e", "f", "a", "u", "l", "t">>}

\* the colour the type stands for: its own if it spells an enumerated type in
\* any case, the default for every other value and for a missing type
ColorOfType(type) ==
    IF type # MissingType /\ \E c \in EnumeratedColors : SameIgnoringCase(type, c[1])
    THEN (CHOOSE c \in EnumeratedColors : SameIgnoringCase(type, c[1]))[2]
    ELSE DefaultColor

\* C4: every rendered node has the colour of its type: the fixed colour of an
\* enumerated type whatever its letter case, the default #666666 for every
\* other type value and for a missing type.
C4_ColorByType ==
    rendered.done =>
        \A k \in 1..Len(rendered.nodes) :
            rendered.nodes[k].color = ColorOfType(payload.nodes[k].type)

IsDigit(c) == \E d \in 1..10 : Digits[d] = c
DigitValue(c) == (CHOOSE d \in 1..10 : Digits[d] = c) - 1

RECURSIVE ParseNat(_)
ParseNat(str) ==
    IF str = <<>> THEN 0
    ELSE 10 * ParseNat(SubSeq(str, 1, Len(str) - 1)) + DigitValue(str[Len(str)])

\* the label reads "<type> (<i>.<dd>)" and i.dd is within half a hundredth
\* of the weight
LabelShowsWeight(label, edge) ==
    LET t == Len(edge.type)
        n == Len(label)
        whole == SubSeq(label, t + 3, n - 4)
    IN  /\ n >= t + 7
        /\ SubSeq(label, 1, t) = edge.type
        /\ label[t + 1] = " " /\ label[t + 2] = "(" /\ label[n] = ")"
        /\ label[n - 3] = "."
        /\ \A k \in (t + 3)..(n - 1) : k # n - 3 => IsDigit(label[k])
        /\ (Len(whole) > 1 => whole[1] # "0")
        /\ LET shown == 1000 * ParseNat(whole)
                          + 10 * ParseNat(SubSeq(label, n - 2, n - 1))
           IN  shown - edge.weight \in -5..5

\* C5: the adapter emits exactly one link per edge, in input order, each link
\* with the edge's source, target, type and weight and the label
\* "<type> (<weight to 2 decimals>)"; the edge a -> b, related, 0.5 gives the
\* label "related (0.50)".
C5_OneLabelledLinkPerEdge ==
    rendered.done =>
        /\ Len(rendered.links) = Len(payload.edges)
        /\ \A k \in 1..Len(payload.edges) :
              LET link == rendered.links[k]
                  edge == payload.edges[k]
              IN  /\ link.source = edge.source /\ link.target = edge.target
                  /\ link.type = edge.type /\ link.weight = edge.weight
                  /\ LabelShowsWeight(link.label, edge)
                  /\ edge = ExampleEdge => link.label = <<"r", "e", "l", "a", "t", "e", "d", " ", "(", "0", ".", "5", "0", ")">>

\* C5 witness: the payload of the example has been rendered, and a second
\* edge after it.
C5_Witness ==
    /\ rendered.done
    /\ Len(payload.edges) = 2
    /\ payload.edges[1] = ExampleEdge
    /\ payload.edges[2].weight = 126
    /\ rendered.links[1] =
          [source |-> "a", target |-> "b", type |-> RelatedType, weight |-> 500,
           label |-> <<"r", "e", "l", "a", "t", "e", "d", " ", "(", "0", ".", "5", "0", ")">>]
    /\ rendered.links[2].source = "b"

----------------------------------------------------------------------------
(* Properties of the graph view *)

\* C6: after a node is dragged and released it is pinned at the release
\* position (fx = x, fy = y) and is at that position after the re-render the
\* saved position triggers, after the next simulation tick and after any
\* later render, for as long as the node is in the data.
C6_ReleasedNodeStays ==
    released # NoRelease =>
        \E k \in 1..Len(simNodes) :
            /\ simNodes[k].id = released.id
            /\ simNodes[k].x = Some(released.x) /\ simNodes[k].y = Some(released.y)
            /\ simNodes[k].fx = Some(released.x) /\ simNodes[k].fy = Some(released.y)

\* C6 witness: node a was released at (0, MaxCoord), a tick followed, and the
\* node is there, next to a node that was never pinned.
C6_Witness ==
    /\ released = [id |-> "a", x |-> 0, y |-> MaxCoord, ticked |-> TRUE]
    /\ Len(simNodes) = 2
    /\ simNodes[1].id = "a"
    /\ simNodes[1].x = Some(0) /\ simNodes[1].y = Some(MaxCoord)
    /\ simNodes[2].fx = Undef

\* a node the user pinned by a drag: onNodeDragEnd sets fx and fy together
Pinned(node) == node.fx # Undef /\ node.fy # Undef

\* C13: a perturbation interval leaves the velocity (vx, vy) of every pinned
\* node as it was, at whatever position the node was pinned.
C13_PinnedNotPerturbed ==
    [][Perturb =>
          \A k \in 1..Len(simNodes) :
              Pinned(simNodes[k]) =>
                  /\ simNodes'[k].vx = simNodes[k].vx
                  /\ simNodes'[k].vy = simNodes[k].vy]_vars

\* C14: after any drags, ticks, perturbations, renders and data refreshes the
\* keys of the position cache are ids of the current data, the view holds one
\* node per node of the data, a node whose id is in the cache has
\* x = fx = cached x and y = fy = cached y, and a node whose id is not in the
\* cache has no pinned coordinate.
C14_CacheDrivesPins ==
    /\ DOMAIN nodePositions \subseteq Ids(data)
    /\ Len(simNodes) = Len(data)
    /\ \A k \in 1..Len(simNodes) :
          LET node == simNodes[k] IN
            /\ node.id = data[k].id
            /\ IF node.id \in DOMAIN nodePositions
               THEN /\ node.x = Some(nodePositions[node.id].x)
                    /\ node.fx = Some(nodePositions[node.id].x)
                    /\ node.y = Some(nodePositions[node.id].y)
                    /\ node.fy = Some(nodePositions[node.id].y)
               ELSE node.fx = Undef /\ node.fy = Undef

\* C14 witness: node a has been dropped from the data while node b, released
\* at (MaxCoord, 1), stayed: the cache holds b alone and b is pinned there.
C14_Witness ==
    /\ Ids(data) = {"b"}
    /\ DOMAIN nodePositions = {"b"}
    /\ nodePositions["b"] = [x |-> MaxCoord, y |-> 1]
    /\ Len(simNodes) = 1
    /\ simNodes[1].id = "b"
    /\ simNodes[1].fx = Some(MaxCoord) /\ simNodes[1].fy = Some(1)
    /\ simNodes[1].x = Some(MaxCoord) /\ simNodes[1].y = Some(1)

====
